---- MODULE Spec2Model ----
(***************************************************************************)
(* A model of pf/accounting.py: calc_cashflow (the daily cashflow table)   *)
(* and cashflow_statement (the period statement with Net, % and totals).   *)
(*                                                                         *)
(* Dates are day numbers.  A pandas table is a function from its index to  *)
(* its cells; a dict is a function whose DOMAIN is its key set.            *)
(*                                                                         *)
(* Line 133 reads the name cashflow_dict; the model takes it to be the     *)
(* function's argument, a table of one $ per (direction, class, leaf).     *)
(* Inputs with a leaf keyed (Net, class, Total) are left out: line 142     *)
(* would give the table two rows of one key.                               *)
(***************************************************************************)
EXTENDS Integers, Sequences, FiniteSets, TLC

VARIABLES
    fn,             \* which function this behaviour runs: "calc" or "stmt"
    pc,             \* position in the running function
    err,            \* the exception that ended the call, "" when none
    raisedIn,       \* the pc the exception was raised from, "" when none
    category_dict,  \* calc_cashflow: the caller's taxonomy (mutated in place)
    transactions,   \* calc_cashflow: the transaction rows, in input order
    cashflow_dict,  \* calc_cashflow: leaf key -> the rows selected for it
    cashflow,       \* calc_cashflow: the returned table
    leaves,         \* cashflow_statement: the input per-leaf totals
    stmt,           \* cashflow_statement: the statement table being built
    l1_totals,      \* cashflow_statement: class-level totals
    l0_totals,      \* cashflow_statement: direction-level totals
    emptySum        \* pandas' sum of an all-NaN group: NaN (< 0.22) or 0.0

vars == <<fn, pc, err, raisedIn, category_dict, transactions, cashflow_dict,
          cashflow, leaves, stmt, l1_totals, l0_totals, emptySum>>

calcVars == <<category_dict, transactions, cashflow_dict, cashflow>>
stmtVars == <<leaves, stmt, l1_totals, l0_totals, emptySum>>

----------------------------------------------------------------------------
(* Bounds of the model. *)

MaxTx == 2
MaxDate == 3
MaxAmt == 1

----------------------------------------------------------------------------
(* Inputs of calc_cashflow. *)

Dates == 1..MaxDate

\* category, labels and amount of a transaction row
TxKinds ==
    { [category |-> "Grocery", labels |-> {"Shared"}, amount |-> -50],
      [category |-> "Grocery", labels |-> {"Other"},  amount |-> -30],
      [category |-> "Grocery", labels |-> {},         amount |-> -10],
      [category |-> "Grocery", labels |-> {"Shared", "Other"}, amount |-> -5],
      [category |-> "Rent",    labels |-> {},         amount |-> -700] }

Tx ==
    { [date |-> d, category |-> k.category, labels |-> k.labels, amount |-> k.amount] :
        d \in Dates, k \in TxKinds }

TxFrames == UNION { [1..n -> Tx] : n \in 0..MaxTx }

LeafFields == {"categories", "labels", "logic"}

FullRules ==
    [categories : {{"Grocery"}, {"Grocery", "Rent"}},
     labels     : {{}, {"Shared"}},
     logic      : {"", "not"}]

\* a leaf dictionary with any of its keys left out
RuleDicts == { [f \in F |-> r[f]] : r \in FullRules, F \in SUBSET LeafFields }

LeafA == <<"Outflow", "Operating", "Food">>
LeafB == <<"Outflow", "Operating", "Household">>

SecondRules ==
    { [f \in {"categories"} |-> {"Grocery", "Rent"}],
      [categories |-> {"Rent"}, labels |-> {"Other"}, logic |-> "not"] }

EmptyDict == [k \in {} |-> {}]

Taxonomies ==
    {EmptyDict}
    \cup { [k \in {LeafA} |-> r] : r \in RuleDicts }
    \cup { [k \in {LeafA, LeafB} |-> IF k = LeafA THEN r ELSE r2] :
                r \in RuleDicts, r2 \in SecondRules }

----------------------------------------------------------------------------
(* calc_cashflow *)

has_key(d, f) == f \in DOMAIN d

\* lines 81-84: the missing 'labels' and 'logic' items of one leaf
AddDefaults(v2) ==
    [f \in DOMAIN v2 \cup {"labels", "logic"} |->
        IF f \in DOMAIN v2 THEN v2[f]
        ELSE IF f = "labels" THEN {} ELSE ""]

isdisjoint(x, y) == x \cap y = {}

\* RowMask with the two branches of the 'logic' test exchanged
RowMask_swapped(t, v2) ==
    /\ t.category \in v2["categories"]
    /\ \/ IF v2["logic"] # "" THEN ~isdisjoint(t.labels, v2["labels"])
                              ELSE isdisjoint(t.labels, v2["labels"])
       \/ v2["labels"] = {}

\* lines 91-99: the boolean mask of one row under leaf v2
RowMask(t, v2) ==
    /\ t.category \in v2["categories"]
    /\ \/ IF v2["logic"] # "" THEN isdisjoint(t.labels, v2["labels"])
                              ELSE ~isdisjoint(t.labels, v2["labels"])
       \/ v2["labels"] = {}

RECURSIVE SelectRows(_, _, _)
\* transactions[mask]: the positions of the rows the mask keeps, in order
SelectRows(txs, v2, i) ==
    IF i > Len(txs) THEN <<>>
    ELSE (IF RowMask(txs[i], v2) THEN <<i>> ELSE <<>>) \o SelectRows(txs, v2, i + 1)

RECURSIVE SumOn_anydate(_, _, _)
\* SumOn without the grouping by date
SumOn_anydate(txs, sel, d) ==
    IF sel = <<>> THEN 0
    ELSE txs[Head(sel)].amount + SumOn_anydate(txs, Tail(sel), d)

RECURSIVE SumOn(_, _, _)
\* the sum of the amounts of the rows of a selection dated d
SumOn(txs, sel, d) ==
    IF sel = <<>> THEN 0
    ELSE (IF txs[Head(sel)].date = d THEN txs[Head(sel)].amount ELSE 0)
         + SumOn(txs, Tail(sel), d)

\* line 113: c.groupby(lambda x: x.date()).sum()
GroupByDate(txs, sel) ==
    [d \in { txs[sel[j]].date : j \in 1..Len(sel) } |-> SumOn(txs, sel, d)]

\* line 110: pd.date_range(start, end), empty when start > end
date_range(start, end) == { d \in start..end : start <= end }

\* line 113: the column assignment aligns the sums on the table's index
Reindex(g, index) ==
    [d \in index |-> IF d \in DOMAIN g THEN [isnull |-> FALSE, v |-> g[d]]
                                        ELSE [isnull |-> TRUE, v |-> 0]]

\* line 115
fillna(col, x) == [d \in DOMAIN col |-> IF col[d].isnull THEN x ELSE col[d].v]

NoTable == [index |-> {}, cols |-> {}, cell |-> EmptyDict]

\* lines 108-115
BuildTable(txs, cd) ==
    LET index == date_range(txs[Len(txs)].date, txs[1].date)
    IN  [index |-> index,
         cols  |-> DOMAIN cd,
         cell  |-> [cat \in DOMAIN cd |->
                       fillna(Reindex(GroupByDate(txs, cd[cat]), index), 0)]]

InitCalc ==
    /\ fn = "calc"
    /\ pc = "normalize"
    /\ err = ""
    /\ raisedIn = ""
    /\ category_dict \in Taxonomies
    /\ transactions \in TxFrames
    /\ cashflow_dict = EmptyDict
    /\ cashflow = NoTable
    /\ leaves = EmptyDict
    /\ stmt = EmptyDict
    /\ l1_totals = EmptyDict
    /\ l0_totals = EmptyDict
    /\ emptySum = [kind |-> "nan", n |-> 0, d |-> 0]

Raise(e) ==
    /\ pc' = "raised"
    /\ err' = e
    /\ raisedIn' = pc

\* lines 78-84
Normalize ==
    /\ fn = "calc"
    /\ pc = "normalize"
    /\ category_dict' = [k \in DOMAIN category_dict |-> AddDefaults(category_dict[k])]
    /\ pc' = "classify"
    /\ UNCHANGED <<fn, err, raisedIn, transactions, cashflow_dict, cashflow>>
    /\ UNCHANGED stmtVars

\* ClassifyLeaf giving a leaf without 'categories' an empty selection
ClassifyLeaf_skip(k) ==
    /\ fn = "calc"
    /\ pc = "classify"
    /\ k \in DOMAIN category_dict \ DOMAIN cashflow_dict
    /\ cashflow_dict' =
          [x \in DOMAIN cashflow_dict \cup {k} |->
              IF x # k THEN cashflow_dict[x]
              ELSE IF has_key(category_dict[k], "categories")
                   THEN SelectRows(transactions, category_dict[k], 1)
                   ELSE <<>>]
    /\ UNCHANGED <<fn, pc, err, raisedIn, category_dict, transactions, cashflow>>
    /\ UNCHANGED stmtVars

\* lines 87-105: one item of the dictionary comprehension
ClassifyLeaf(k) ==
    /\ fn = "calc"
    /\ pc = "classify"
    /\ k \in DOMAIN category_dict \ DOMAIN cashflow_dict
    /\ IF has_key(category_dict[k], "categories")
       THEN /\ cashflow_dict' =
                 [x \in DOMAIN cashflow_dict \cup {k} |->
                     IF x = k THEN SelectRows(transactions, category_dict[k], 1)
                              ELSE cashflow_dict[x]]
            /\ UNCHANGED <<pc, err, raisedIn>>
       ELSE /\ Raise("KeyError")
            /\ UNCHANGED cashflow_dict
    /\ UNCHANGED <<fn, category_dict, transactions, cashflow>>
    /\ UNCHANGED stmtVars

\* lines 107-115
AssembleTable ==
    /\ fn = "calc"
    /\ pc = "classify"
    /\ DOMAIN cashflow_dict = DOMAIN category_dict
    /\ IF DOMAIN cashflow_dict = {}
       THEN /\ Raise("TypeError")        \* MultiIndex.from_tuples([])
            /\ UNCHANGED cashflow
       ELSE IF Len(transactions) = 0
       THEN /\ Raise("IndexError")       \* transactions.index[-1]
            /\ UNCHANGED cashflow
       ELSE /\ cashflow' = BuildTable(transactions, cashflow_dict)
            /\ pc' = "done"
            /\ UNCHANGED <<err, raisedIn>>
    /\ UNCHANGED <<fn, category_dict, transactions, cashflow_dict>>
    /\ UNCHANGED stmtVars

NextCalc ==
    \/ Normalize
    \/ \E k \in {LeafA, LeafB} : ClassifyLeaf(k)
    \/ AssembleTable

SpecCalc == InitCalc /\ [][NextCalc]_vars

----------------------------------------------------------------------------
(* Properties of calc_cashflow *)

\* the row at position i is among the rows selected for leaf k
Counted(i, k) == \E j \in 1..Len(cashflow_dict[k]) : cashflow_dict[k][j] = i

Intersects(x, y) == \E l \in x : l \in y

LogicOf(R) == IF R["logic"] = "" THEN "normal" ELSE "inverted"

\* the label filter of a normalized leaf rule, as the specification words it
LabelFilter(t, R) ==
    \/ R["labels"] = {}
    \/ LogicOf(R) = "normal" /\ Intersects(t.labels, R["labels"])
    \/ LogicOf(R) = "inverted" /\ ~Intersects(t.labels, R["labels"])

Matches(t, R) == t.category \in R["categories"] /\ LabelFilter(t, R)

C2_EmptyLabelsBypass ==
    \A k \in DOMAIN cashflow_dict : \A i \in 1..Len(transactions) :
        LET R == category_dict[k]
            t == transactions[i]
        IN  (R["logic"] = "" /\ R["labels"] # {} /\ t.category \in R["categories"]) =>
              /\ Intersects(t.labels, R["labels"]) => Counted(i, k)
              /\ (t.labels # {} /\ ~Intersects(t.labels, R["labels"])) => ~Counted(i, k)
              /\ t.labels = {} => Counted(i, k)

TxDates == { transactions[i].date : i \in 1..Len(transactions) }

MinOf(S) == CHOOSE x \in S : \A y \in S : x <= y
MaxOf(S) == CHOOSE x \in S : \A y \in S : x >= y

\* C3: the returned table has a row for every date from the earliest to the
\* latest transaction date, whatever the order of the input.
C3_Coverage ==
    pc = "done" => cashflow.index = { d \in Dates : MinOf(TxDates) <= d /\ d <= MaxOf(TxDates) }

RECURSIVE AmountOf(_)
\* the sum of the amounts of a set of row positions
AmountOf(S) ==
    IF S = {} THEN 0
    ELSE LET i == CHOOSE x \in S : TRUE
         IN  transactions[i].amount + AmountOf(S \ {i})

MatchingOn(d, k) ==
    { i \in 1..Len(transactions) :
        transactions[i].date = d /\ Matches(transactions[i], category_dict[k]) }

\* C4: every cell (d, L) of the returned table is the sum of the amounts of
\* the transactions dated d that match L's rule, 0 when there are none, so a
\* transaction that matches no leaf is in no cell.
C4_CellIsSum ==
    pc = "done" =>
        /\ cashflow.cols = DOMAIN category_dict
        /\ \A k \in cashflow.cols :
              /\ DOMAIN cashflow.cell[k] = cashflow.index
              /\ \A d \in cashflow.index : cashflow.cell[k][d] = AmountOf(MatchingOn(d, k))

\* a cell that sums two rows of one date, beside a cell that no row matches
C4_Witness ==
    /\ pc = "done"
    /\ \E k \in cashflow.cols : \E d \in cashflow.index :
          /\ Cardinality(MatchingOn(d, k)) = 2
          /\ cashflow.cell[k][d] = AmountOf(MatchingOn(d, k))
          /\ cashflow.cell[k][d] # 0
    /\ \E k \in cashflow.cols : \E d \in cashflow.index :
          MatchingOn(d, k) = {} /\ cashflow.cell[k][d] = 0

\* C7: calc_cashflow with no transactions and an empty taxonomy does not raise.
C7_EmptyInputDoesNotRaise ==
    (fn = "calc" /\ transactions = <<>> /\ DOMAIN category_dict = {}) => pc # "raised"

Malformed == \E k \in DOMAIN category_dict : ~has_key(category_dict[k], "categories")

\* C8 as claimed: the error for a leaf without 'categories' is raised in the
\* normalization pass, before any leaf has been classified.
C8_RaisedInNormalization ==
    (pc = "raised" /\ err = "KeyError") =>
        raisedIn = "normalize" /\ DOMAIN cashflow_dict = {}

\* C8, amended: with a leaf that lacks 'categories' the call returns no table
\* and cannot skip the leaf (it stays unclassified until it raises); the
\* KeyError comes from the classification step, when every leaf has already
\* been given its 'labels' and 'logic'.
C8_MissingCategoriesIsFatal ==
    /\ Malformed =>
          /\ pc # "done" /\ cashflow = NoTable
          /\ \A k \in DOMAIN cashflow_dict : has_key(category_dict[k], "categories")
          /\ pc = "raised" => err = "KeyError"
    /\ err = "KeyError" =>
          /\ Malformed
          /\ raisedIn = "classify"
          /\ \A k \in DOMAIN category_dict :
                has_key(category_dict[k], "labels") /\ has_key(category_dict[k], "logic")

\* the KeyError came after another leaf had been classified
C8_Witness ==
    pc = "raised" /\ err = "KeyError" /\ DOMAIN cashflow_dict # {}


----------------------------------------------------------------------------
(* Floating point values of the statement: a fraction n/d in lowest terms *)
(* with d > 0, or one of NaN, +inf, -inf (d = 0).                          *)

NaN  == [kind |-> "nan", n |-> 0,  d |-> 0]
PInf == [kind |-> "inf", n |-> 1,  d |-> 0]
NInf == [kind |-> "inf", n |-> -1, d |-> 0]

Abs(x) == IF x < 0 THEN -x ELSE x

RECURSIVE Gcd(_, _)
Gcd(a, b) == IF b = 0 THEN a ELSE Gcd(b, a % b)

\* the float x / y of two integers, y possibly 0
Frac(x, y) ==
    IF y = 0 THEN (IF x > 0 THEN PInf ELSE IF x < 0 THEN NInf ELSE NaN)
    ELSE LET g == Gcd(Abs(x), Abs(y))
             s == IF y < 0 THEN -1 ELSE 1
         IN  [kind |-> "num", n |-> (s * x) \div g, d |-> (s * y) \div g]

Num(x) == Frac(x, 1)

isnull(v) == v.kind = "nan"

FMul(c, v) == IF v.kind = "num" THEN Frac(c * v.n, v.d) ELSE v

FAdd(a, b) ==
    IF a.kind = "nan" \/ b.kind = "nan" THEN NaN
    ELSE IF a.kind = "inf" /\ b.kind = "inf" THEN (IF a.n = b.n THEN a ELSE NaN)
    ELSE IF a.kind = "inf" THEN a
    ELSE IF b.kind = "inf" THEN b
    ELSE Frac(a.n * b.d + b.n * a.d, a.d * b.d)

RECURSIVE FSum(_, _)
\* the float sum of column values f[k], k \in S
FSum(S, f) ==
    IF S = {} THEN Num(0)
    ELSE LET k == CHOOSE x \in S : TRUE IN FAdd(f[k], FSum(S \ {k}, f))

\* pandas' sum of a group: NaN cells are skipped; a group with no cell left
\* sums to NaN before pandas 0.22 and to 0.0 from then on
SumSkipNa(S, f, allnan) ==
    LET T == { k \in S : ~isnull(f[k]) }
    IN  IF T = {} /\ S # {} THEN allnan ELSE FSum(T, f)

----------------------------------------------------------------------------
(* cashflow_statement *)

LeafUniverse ==
    { <<"Inflow",  "Operating",    "Salary">>,
      <<"Inflow",  "Operating",    "Total">>,
      <<"Inflow",  "NonOperating", "Interest">>,
      <<"Outflow", "Operating",    "Rent">>,
      <<"Inflow",  "Total",        " ">>,
      <<"Net",     "Operating",    "Adjustment">> }

Amounts == (-MaxAmt)..MaxAmt

\* the per-leaf totals of the statement example
ExampleTotals ==
    [k \in { <<"Inflow", "Operating", "Salary">>,
             <<"Inflow", "NonOperating", "Interest">>,
             <<"Outflow", "Operating", "Rent">> } |->
        IF k[3] = "Salary" THEN 1000 ELSE IF k[3] = "Interest" THEN 50 ELSE -700]

LeafTotals == UNION { [K -> Amounts] : K \in SUBSET LeafUniverse } \cup {ExampleTotals}

Column(t, c) == [k \in DOMAIN t |-> t[k][c]]

\* DataFrame.sum(level=[0]) of one column: group key -> sum
SumLevel0(t, c, allnan) ==
    [x0 \in { k[1] : k \in DOMAIN t } |->
        SumSkipNa({ k \in DOMAIN t : k[1] = x0 }, Column(t, c), allnan)]

\* SumLevel01 grouping on the first level alone
SumLevel01_level0only(t, c, allnan) ==
    [g \in { <<k[1], k[2]>> : k \in DOMAIN t } |->
        SumSkipNa({ k \in DOMAIN t : k[1] = g[1] }, Column(t, c), allnan)]

\* DataFrame.sum(level=[0,1]) of one column
SumLevel01(t, c, allnan) ==
    [g \in { <<k[1], k[2]>> : k \in DOMAIN t } |->
        SumSkipNa({ k \in DOMAIN t : <<k[1], k[2]>> = g }, Column(t, c), allnan)]

\* NetOf summing by direction: cashflow[['$']].sum(level=[0,1]).sum(level=0)
NetOf_byDirection(t, allnan) ==
    LET byDirClass == SumLevel01(t, "$", allnan)
    IN  [x0 \in { g[1] : g \in DOMAIN byDirClass } |->
            SumSkipNa({ g \in DOMAIN byDirClass : g[1] = x0 }, byDirClass, allnan)]

\* line 137: cashflow[['$']].sum(level=[0,1]).sum(level=1)
NetOf(t, allnan) ==
    LET byDirClass == SumLevel01(t, "$", allnan)
    IN  [x1 \in { g[2] : g \in DOMAIN byDirClass } |->
            SumSkipNa({ g \in DOMAIN byDirClass : g[2] = x1 }, byDirClass, allnan)]

\* lines 138-142
WithNet(t, allnan) ==
    LET net == NetOf(t, allnan)
        netRows == [k \in { <<"Net", x1, "Total">> : x1 \in DOMAIN net } |->
                       [c \in {"$"} |-> net[k[2]]]]
    IN  [k \in DOMAIN t \cup DOMAIN netRows |->
            IF k \in DOMAIN t THEN t[k] ELSE netRows[k]]

\* the float a / b
FDiv(a, b) ==
    IF a.kind = "nan" \/ b.kind = "nan" THEN NaN
    ELSE IF b.kind = "inf" THEN (IF a.kind = "inf" THEN NaN ELSE Num(0))
    ELSE IF a.kind = "inf" THEN (IF b.n < 0 THEN [a EXCEPT !.n = -a.n] ELSE a)
    ELSE Frac(a.n * b.d, a.d * b.n)

\* the denominators of line 145 taken over the whole table
PctDenominator_overall(t, k, allnan) ==
    SumSkipNa(DOMAIN t, Column(t, "$"), allnan)

\* line 145: cashflow.sum(level=0), looked up for the row k
PctDenominator(t, k, allnan) == SumLevel0(t, "$", allnan)[k[1]]

\* line 145: cashflow['%'] = 100.0 * cashflow.div(cashflow.sum(level=0), level=0)
WithPct(t, allnan) ==
    [k \in DOMAIN t |->
        [c \in {"$", "%"} |->
            IF c = "$" THEN t[k]["$"]
            ELSE FMul(100, FDiv(t[k]["$"], PctDenominator(t, k, allnan)))]]

\* lines 148-150
L1Totals(t, allnan) ==
    LET s == SumLevel01(t, "$", allnan)
        q == SumLevel01(t, "%", allnan)
    IN  [k \in { <<g[1], g[2], "Total">> : g \in DOMAIN s } |->
            [c \in {"$", "%"} |-> IF c = "$" THEN s[<<k[1], k[2]>>] ELSE q[<<k[1], k[2]>>]]]

\* lines 152-154
L0Totals(t, allnan) ==
    LET s == SumLevel0(t, "$", allnan)
        q == SumLevel0(t, "%", allnan)
    IN  [k \in { <<x0, "Total", " ">> : x0 \in DOMAIN s } |->
            [c \in {"$", "%"} |-> IF c = "$" THEN s[k[1]] ELSE q[k[1]]]]

\* a merge in which the other table's cells win
combine_first_overwrite(a, b) ==
    [k \in DOMAIN a \cup DOMAIN b |-> IF k \in DOMAIN b THEN b[k] ELSE a[k]]

\* DataFrame.combine_first: the union of the rows; a cell of a that is null
\* is taken from b
combine_first(a, b) ==
    [k \in DOMAIN a \cup DOMAIN b |->
        IF k \notin DOMAIN b THEN a[k]
        ELSE IF k \notin DOMAIN a THEN b[k]
        ELSE [c \in DOMAIN a[k] |-> IF isnull(a[k][c]) THEN b[k][c] ELSE a[k][c]]]

InitStmt ==
    /\ fn = "stmt"
    /\ pc = "convert"
    /\ err = ""
    /\ raisedIn = ""
    /\ category_dict = EmptyDict
    /\ transactions = <<>>
    /\ cashflow_dict = EmptyDict
    /\ cashflow = NoTable
    /\ leaves \in LeafTotals
    /\ stmt = EmptyDict
    /\ l1_totals = EmptyDict
    /\ l0_totals = EmptyDict
    /\ emptySum \in {NaN, Num(0)}

\* lines 129-134: an empty input with a one-level index cannot take the three
\* index names; an empty input with a three-level index goes on
Convert ==
    /\ fn = "stmt"
    /\ pc = "convert"
    /\ \/ /\ stmt' = [k \in DOMAIN leaves |-> [c \in {"$"} |-> Num(leaves[k])]]
          /\ pc' = "net"
          /\ UNCHANGED <<err, raisedIn>>
       \/ /\ DOMAIN leaves = {}
          /\ Raise("ValueError")
          /\ UNCHANGED stmt
    /\ UNCHANGED <<fn, leaves, l1_totals, l0_totals, emptySum>>
    /\ UNCHANGED calcVars

\* lines 136-142
AddNet ==
    /\ fn = "stmt"
    /\ pc = "net"
    /\ IF DOMAIN stmt = {}
       THEN /\ Raise("TypeError")        \* MultiIndex.from_tuples([])
            /\ UNCHANGED stmt
       ELSE /\ stmt' = WithNet(stmt, emptySum)
            /\ pc' = "pct"
            /\ UNCHANGED <<err, raisedIn>>
    /\ UNCHANGED <<fn, leaves, l1_totals, l0_totals, emptySum>>
    /\ UNCHANGED calcVars

\* line 145
CalcPct ==
    /\ fn = "stmt"
    /\ pc = "pct"
    /\ stmt' = WithPct(stmt, emptySum)
    /\ pc' = "totals"
    /\ UNCHANGED <<fn, err, raisedIn, leaves, l1_totals, l0_totals, emptySum>>
    /\ UNCHANGED calcVars

\* lines 148-154
CalcTotals ==
    /\ fn = "stmt"
    /\ pc = "totals"
    /\ l1_totals' = L1Totals(stmt, emptySum)
    /\ l0_totals' = L0Totals(stmt, emptySum)
    /\ pc' = "merge1"
    /\ UNCHANGED <<fn, err, raisedIn, leaves, stmt, emptySum>>
    /\ UNCHANGED calcVars

\* line 157
MergeL1 ==
    /\ fn = "stmt"
    /\ pc = "merge1"
    /\ stmt' = combine_first(stmt, l1_totals)
    /\ pc' = "merge0"
    /\ UNCHANGED <<fn, err, raisedIn, leaves, l1_totals, l0_totals, emptySum>>
    /\ UNCHANGED calcVars

\* lines 158-160
MergeL0 ==
    /\ fn = "stmt"
    /\ pc = "merge0"
    /\ stmt' = combine_first(stmt, l0_totals)
    /\ pc' = "done"
    /\ UNCHANGED <<fn, err, raisedIn, leaves, l1_totals, l0_totals, emptySum>>
    /\ UNCHANGED calcVars

NextStmt ==
    \/ Convert
    \/ AddNet
    \/ CalcPct
    \/ CalcTotals
    \/ MergeL1
    \/ MergeL0

SpecStmt == InitStmt /\ [][NextStmt]_vars


----------------------------------------------------------------------------
(* Properties of cashflow_statement *)

RECURSIVE TotalOf(_)
\* the sum of the input totals of a set of leaves
TotalOf(S) ==
    IF S = {} THEN 0
    ELSE LET k == CHOOSE x \in S : TRUE IN leaves[k] + TotalOf(S \ {k})

Under(x0, x1) == { k \in DOMAIN leaves : k[1] = x0 /\ k[2] = x1 }
UnderDirection(x0) == { k \in DOMAIN leaves : k[1] = x0 }
OfClass(x1) == { k \in DOMAIN leaves : k[2] = x1 }

Directions == { k[1] : k \in DOMAIN leaves }
Classes == { k[2] : k \in DOMAIN leaves }

HasRow(k, x) == k \in DOMAIN stmt /\ stmt[k]["$"] = Num(x)

NetKeys == { <<"Net", x1, "Total">> : x1 \in Classes }
PctRows == DOMAIN leaves \cup NetKeys

RECURSIVE DollarsOf(_)
\* the sum of the $ of a set of statement rows, as an integer
DollarsOf(S) ==
    IF S = {} THEN 0
    ELSE LET k == CHOOSE x \in S : TRUE IN stmt[k]["$"].n + DollarsOf(S \ {k})

Appended == DOMAIN stmt \ DOMAIN leaves

KeepsRows ==
    \A k \in DOMAIN stmt :
        /\ k \in DOMAIN stmt'
        /\ stmt'[k]["$"] = stmt[k]["$"]
        /\ "%" \in DOMAIN stmt[k] => stmt'[k]["%"] = stmt[k]["%"]

\* the same, but a % that is NaN may be filled in
KeepsRowsButNaN ==
    \A k \in DOMAIN stmt :
        /\ k \in DOMAIN stmt'
        /\ stmt'[k]["$"] = stmt[k]["$"]
        /\ ("%" \in DOMAIN stmt[k] /\ ~isnull(stmt[k]["%"])) => stmt'[k]["%"] = stmt[k]["%"]

LeavesKept ==
    (fn = "stmt" /\ pc = "done") =>
        \A k \in DOMAIN leaves : k \in DOMAIN stmt /\ stmt[k]["$"] = Num(leaves[k])

====
